---- MODULE Spec2Model ----
(***************************************************************************)
(* A model of berserk.clients.tournaments.Tournaments: one method per      *)
(* server endpoint.  A method binds its arguments, builds a path and a     *)
(* dictionary, and hands both to the requestor self._r; a streaming        *)
(* method is a Python generator that does so at its first pull and then    *)
(* delegates every pull to the requestor's iterator (yield from).          *)
(*                                                                         *)
(* The requestor (berserk.session) and FmtClient (berserk.clients.base)    *)
(* are not part of the source at hand; they are modelled from the          *)
(* specification as a capturing transport that answers, fails, or hands    *)
(* out a lazy iterator, and as the client-wide PGN default.                *)
(***************************************************************************)
EXTENDS Integers, Sequences, FiniteSets, TLC

VARIABLES
    client,     \* self: the client object's own state (the PGN default)
    last,       \* the most recent call: its arguments, requests and outcome
    gens        \* the generator objects the caller still holds

vars == <<client, last, gens>>

(***************************************************************************)
(* Bounds of the model.                                                    *)
(***************************************************************************)
MaxGiven == 1   \* optional arguments one call passes explicitly
MaxItems == 2   \* items one streamed response can hold
MaxGens == 1    \* generators the caller holds while it makes further calls

(***************************************************************************)
(* Python values: None, bool, int and str.  A bool is an int in Python;    *)
(* the tag keeps False apart from 0 and "" apart from None.                *)
(***************************************************************************)
PyNone == [t |-> "None", i |-> 0, s |-> ""]
PyBool(b) == [t |-> "bool", i |-> IF b THEN 1 ELSE 0, s |-> ""]
PyInt(n) == [t |-> "int", i |-> n, s |-> ""]
PyStr(x) == [t |-> "str", i |-> 0, s |-> x]
PyTrue == PyBool(TRUE)
PyFalse == PyBool(FALSE)

\* The text an f-string puts in place of {v}.
Format(v) ==
    CASE v.t = "str" -> v.s
      [] v.t = "int" -> ToString(v.i)
      [] v.t = "bool" -> IF v.i = 1 THEN "True" ELSE "False"
      [] OTHER -> "None"

\* from ..formats import NDJSON, NDJSON_LIST, PGN
NDJSON == "NDJSON"
NDJSON_LIST == "NDJSON_LIST"
PGN == "PGN"

(***************************************************************************)
(* The signatures: each parameter with its annotated type and, when it is  *)
(* optional, its default.  An identifier is a str that names a tournament, *)
(* a team or a user; the two float parameters take the int values.         *)
(***************************************************************************)
Req(n, ty) == [name |-> n, type |-> ty, required |-> TRUE, default |-> PyNone]
Opt(n, ty, d) == [name |-> n, type |-> ty, required |-> FALSE, default |-> d]

Signature(m) ==
    CASE m = "get" -> <<>>
      [] m = "get_tournament_arena" ->
            <<Req("tournament_id", "id"), Opt("page", "int", PyInt(1))>>
      [] m = "get_tournament_swiss" -> <<Req("tournament_id", "id")>>
      [] m = "join_arena" ->
            <<Req("tournament_id", "id"), Opt("password", "str", PyNone),
              Opt("team", "str", PyNone),
              Opt("should_pair_immediately", "bool", PyFalse)>>
      [] m = "join_swiss" ->
            <<Req("tournament_id", "id"), Opt("password", "str", PyNone)>>
      [] m = "get_team_standings" -> <<Req("tournament_id", "id")>>
      [] m = "update_team_battle" ->
            <<Req("tournament_id", "id"), Opt("team_ids", "str", PyNone),
              Opt("team_leader_count_per_team", "int", PyNone)>>
      [] m = "create_arena" ->
            <<Req("clockTime", "int"), Req("clockIncrement", "int"),
              Req("minutes", "int"), Opt("name", "str", PyNone),
              Opt("wait_minutes", "int", PyNone),
              Opt("startDate", "int", PyNone),
              Opt("variant", "str", PyNone), Opt("rated", "bool", PyNone),
              Opt("position", "str", PyNone),
              Opt("berserkable", "bool", PyNone),
              Opt("streakable", "bool", PyNone),
              Opt("hasChat", "bool", PyNone),
              Opt("description", "str", PyNone),
              Opt("password", "str", PyNone),
              Opt("teamBattleByTeam", "str", PyNone),
              Opt("teamId", "str", PyNone), Opt("minRating", "int", PyNone),
              Opt("maxRating", "int", PyNone),
              Opt("nbRatedGame", "int", PyNone)>>
      [] m = "create_swiss" ->
            <<Req("teamId", "id"), Req("clockLimit", "int"),
              Req("clockIncrement", "int"), Req("nbRounds", "int"),
              Opt("name", "str", PyNone), Opt("startsAt", "int", PyNone),
              Opt("roundInterval", "int", PyNone),
              Opt("variant", "str", PyNone),
              Opt("description", "str", PyNone),
              Opt("rated", "bool", PyNone), Opt("chatFor", "int", PyNone)>>
      [] m = "export_arena_games" ->
            <<Req("id", "id"), Opt("as_pgn", "bool", PyNone),
              Opt("moves", "bool", PyTrue), Opt("tags", "bool", PyTrue),
              Opt("clocks", "bool", PyFalse), Opt("evals", "bool", PyTrue),
              Opt("opening", "bool", PyFalse)>>
      [] m = "export_swiss_games" ->
            <<Req("id", "id"), Opt("as_pgn", "bool", PyNone),
              Opt("moves", "bool", PyTrue), Opt("pgnInJson", "bool", PyFalse),
              Opt("tags", "bool", PyTrue), Opt("clocks", "bool", PyFalse),
              Opt("evals", "bool", PyTrue), Opt("opening", "bool", PyFalse)>>
      [] m = "export_trf" -> <<Req("tournament_id", "id")>>
      [] m = "tournaments_by_user" ->
            <<Req("username", "id"), Opt("nb", "int", PyNone)>>
      [] m = "arenas_by_team" ->
            <<Req("teamId", "id"), Opt("maxT", "int", PyNone)>>
      [] m = "swiss_by_team" ->
            <<Req("teamId", "id"), Opt("maxT", "int", PyNone)>>
      [] m = "schedule_next_round" ->
            <<Req("tournament_id", "id"),
              Req("start_timestamp_milliseconds", "int")>>
      [] m = "stream_results_arena" ->
            <<Req("tournament_id", "id"), Opt("limit", "int", PyNone)>>
      [] m = "stream_results_swiss" ->
            <<Req("tournament_id", "id"), Opt("limit", "int", PyNone)>>
      [] m = "stream_by_creator" -> <<Req("username", "id")>>
      [] m = "terminate_arena" -> <<Req("tournament_id", "id")>>
      [] m = "terminate_swiss" -> <<Req("tournament_id", "id")>>
      [] m = "update_arena" ->
            <<Req("tournament_id", "id"),
              Req("initial_clock_time_minutes", "int"),
              Req("increment_clock_time_seconds", "int"),
              Req("duration_minutes", "int"), Opt("name", "str", PyNone),
              Opt("wait_minutes", "int", PyNone),
              Opt("start_timestamp_milliseconds", "int", PyNone),
              Opt("variant", "str", PyNone), Opt("rated", "bool", PyTrue),
              Opt("position", "str", PyNone),
              Opt("berserkable", "bool", PyTrue),
              Opt("streakable", "bool", PyTrue),
              Opt("has_chat", "bool", PyTrue),
              Opt("description", "str", PyNone),
              Opt("password", "str", PyNone),
              Opt("min_rating", "int", PyNone),
              Opt("max_rating", "int", PyNone),
              Opt("min_rated_games_count", "int", PyNone),
              Opt("allowed_usernames", "str", PyNone)>>
      [] m = "update_swiss" ->
            <<Req("tournament_id", "id"),
              Req("initial_clock_time_minutes", "int"),
              Req("increment_clock_time_seconds", "int"),
              Req("max_rounds", "int"), Opt("name", "str", PyNone),
              Opt("start_timestamp_milliseconds", "int", PyNone),
              Opt("round_interval", "int", PyNone),
              Opt("variant", "str", PyNone),
              Opt("description", "str", PyNone),
              Opt("rated", "bool", PyTrue), Opt("password", "str", PyNone),
              Opt("forbidden_pairings", "str", PyNone),
              Opt("manual_pairings", "str", PyNone),
              Opt("chat_read_write_permissions", "int", PyNone),
              Opt("min_rating", "int", PyNone),
              Opt("max_rating", "int", PyNone),
              Opt("min_rated_games_count", "int", PyNone),
              Opt("allowed_usernames", "str", PyNone)>>
      [] m = "withdraw_arena" -> <<Req("tournament_id", "id")>>
      [] m = "withdraw_swiss" -> <<Req("tournament_id", "id")>>

Params(m) == {Signature(m)[k] : k \in DOMAIN Signature(m)}
ParamNames(m) == {p.name : p \in Params(m)}
RequiredNames(m) == {p.name : p \in {q \in Params(m) : q.required}}
OptionalNames(m) == ParamNames(m) \ RequiredNames(m)
Param(m, n) == CHOOSE p \in Params(m) : p.name = n

(***************************************************************************)
(* What a method body does with the requestor: self._r.get(path, **kw) or  *)
(* self._r.post(path, **kw), with exactly the keyword arguments the body   *)
(* passes, and what it does with the requestor's answer: return it, drop   *)
(* it (the method returns None), or delegate to it (yield from).           *)
(***************************************************************************)
NoKw == [k \in {} |-> PyNone]
R_get(path, kw) == [verb |-> "GET", path |-> path, kw |-> kw]
R_post(path, kw) == [verb |-> "POST", path |-> path, kw |-> kw]

Return(r) == [request |-> r, ret |-> "return"]
Discard(r) == [request |-> r, ret |-> "none"]
YieldFrom(r) == [request |-> r, ret |-> "yield from"]

\* FmtClient._use_pgn: the explicit flag, or the client-wide default.
_use_pgn(self, as_pgn) ==
    IF as_pgn = PyNone THEN self.pgn_as_default ELSE as_pgn.i = 1

get(self, a) ==
    LET path == "/api/tournament"
    IN  Return(R_get(path, [converter |-> "models.Tournament.convert_values"]))

get_tournament_arena(self, a) ==
    LET path == "/api/tournament/" \o Format(a.tournament_id)
                    \o "?page=" \o Format(a.page)
    IN  Return(R_get(path, [converter |-> "models.Tournament.convert"]))

get_tournament_swiss(self, a) ==
    LET path == "/api/swiss/" \o Format(a.tournament_id)
    IN  Return(R_get(path, [converter |-> "models.Tournament.convert"]))

join_arena(self, a) ==
    LET path == "/api/tournament/" \o Format(a.tournament_id) \o "/join"
        params == ("password" :> a.password) @@ ("team" :> a.team)
                    @@ ("pairMeAsap" :> a.should_pair_immediately)
    IN  Discard(R_post(path, [params |-> params,
                              converter |-> "models.Tournament.convert"]))

join_swiss(self, a) ==
    LET path == "/api/swiss/" \o Format(a.tournament_id) \o "/join"
        payload == ("password" :> a.password)
    IN  Return(R_post(path, [payload |-> payload,
                             converter |-> "models.Tournament.convert"]))

\* get_team_standings with the converter its neighbours pass.
get_team_standings_converted(self, a) ==
    LET path == "/api/tournament/" \o Format(a.tournament_id) \o "/teams"
    IN  Return(R_get(path, [converter |-> "models.Tournament.convert"]))

get_team_standings(self, a) ==
    LET path == "/api/tournament/" \o Format(a.tournament_id) \o "/teams"
    IN  Return(R_get(path, NoKw))

update_team_battle(self, a) ==
    LET path == "/api/tournament/team-battle/" \o Format(a.tournament_id)
        params == ("teams" :> a.team_ids)
                    @@ ("nbLeaders" :> a.team_leader_count_per_team)
    IN  Return(R_post(path, [params |-> params]))

create_arena(self, a) ==
    LET path == "/api/tournament"
        payload ==
            ("name" :> a.name) @@ ("clockTime" :> a.clockTime)
            @@ ("clockIncrement" :> a.clockIncrement)
            @@ ("minutes" :> a.minutes) @@ ("waitMinutes" :> a.wait_minutes)
            @@ ("startDate" :> a.startDate) @@ ("variant" :> a.variant)
            @@ ("rated" :> a.rated) @@ ("position" :> a.position)
            @@ ("berserkable" :> a.berserkable)
            @@ ("streakable" :> a.streakable) @@ ("hasChat" :> a.hasChat)
            @@ ("description" :> a.description)
            @@ ("password" :> a.password)
            @@ ("teamBattleByTeam" :> a.teamBattleByTeam)
            @@ ("conditions.teamMember.teamId" :> a.teamId)
            @@ ("conditions.minRating.rating" :> a.minRating)
            @@ ("conditions.maxRating.rating" :> a.maxRating)
            @@ ("conditions.nbRatedGame.nb" :> a.nbRatedGame)
    IN  Return(R_post(path, [json |-> payload,
                             converter |-> "models.Tournament.convert"]))

\* create_swiss with the arena's flat clock keys.
create_swiss_flat(self, a) ==
    LET path == "/api/swiss/new/" \o Format(a.teamId)
        payload ==
            ("name" :> a.name) @@ ("clockTime" :> a.clockLimit)
            @@ ("clockIncrement" :> a.clockIncrement)
            @@ ("nbRounds" :> a.nbRounds) @@ ("startsAt" :> a.startsAt)
            @@ ("roundInterval" :> a.roundInterval)
            @@ ("variant" :> a.variant)
            @@ ("description" :> a.description) @@ ("rated" :> a.rated)
            @@ ("chatFor" :> a.chatFor)
    IN  Return(R_post(path, [json |-> payload,
                             converter |-> "models.Tournament.convert"]))

create_swiss(self, a) ==
    LET path == "/api/swiss/new/" \o Format(a.teamId)
        payload ==
            ("name" :> a.name) @@ ("clock.limit" :> a.clockLimit)
            @@ ("clock.increment" :> a.clockIncrement)
            @@ ("nbRounds" :> a.nbRounds) @@ ("startsAt" :> a.startsAt)
            @@ ("roundInterval" :> a.roundInterval)
            @@ ("variant" :> a.variant)
            @@ ("description" :> a.description) @@ ("rated" :> a.rated)
            @@ ("chatFor" :> a.chatFor)
    IN  Return(R_post(path, [json |-> payload,
                             converter |-> "models.Tournament.convert"]))

\* export_arena_games with the two branches' formats exchanged.
export_arena_games_swapped(self, a) ==
    LET path == "/api/tournament/" \o Format(a.id) \o "/games"
        params == ("moves" :> a.moves) @@ ("tags" :> a.tags)
                    @@ ("clocks" :> a.clocks) @@ ("evals" :> a.evals)
                    @@ ("opening" :> a.opening)
    IN  IF _use_pgn(self, a.as_pgn)
        THEN YieldFrom(R_get(path, [params |-> params, fmt |-> NDJSON,
                                    stream |-> TRUE,
                                    converter |-> "models.Game.convert"]))
        ELSE YieldFrom(R_get(path, [params |-> params, fmt |-> PGN,
                                    stream |-> TRUE]))

export_arena_games(self, a) ==
    LET path == "/api/tournament/" \o Format(a.id) \o "/games"
        params == ("moves" :> a.moves) @@ ("tags" :> a.tags)
                    @@ ("clocks" :> a.clocks) @@ ("evals" :> a.evals)
                    @@ ("opening" :> a.opening)
    IN  IF _use_pgn(self, a.as_pgn)
        THEN YieldFrom(R_get(path, [params |-> params, fmt |-> PGN,
                                    stream |-> TRUE]))
        ELSE YieldFrom(R_get(path, [params |-> params, fmt |-> NDJSON,
                                    stream |-> TRUE,
                                    converter |-> "models.Game.convert"]))

export_swiss_games(self, a) ==
    LET path == "/api/swiss/" \o Format(a.id) \o "/games"
        params == ("moves:" :> a.moves) @@ ("pgnInJson" :> a.pgnInJson)
                    @@ ("tags" :> a.tags) @@ ("clocks" :> a.clocks)
                    @@ ("evals" :> a.evals) @@ ("opening" :> a.opening)
    IN  IF _use_pgn(self, a.as_pgn)
        THEN YieldFrom(R_get(path, [params |-> params, fmt |-> PGN,
                                    stream |-> TRUE]))
        ELSE YieldFrom(R_get(path, [params |-> params, fmt |-> NDJSON,
                                    stream |-> TRUE,
                                    converter |-> "models.Game.convert"]))

export_trf(self, a) ==
    LET path == "/swiss/" \o Format(a.tournament_id) \o "/.trf"
    IN  Return(R_get(path, NoKw))

\* tournaments_by_user written like stream_by_creator: the request streamed.
tournaments_by_user_streamed(self, a) ==
    LET path == "/api/user/" \o Format(a.username) \o "/tournament/created"
        params == ("nb" :> a.nb)
    IN  Return(R_get(path, [params |-> params, fmt |-> NDJSON_LIST,
                            converter |-> "models.Game.convert",
                            stream |-> TRUE]))

tournaments_by_user(self, a) ==
    LET path == "/api/user/" \o Format(a.username) \o "/tournament/created"
        params == ("nb" :> a.nb)
    IN  Return(R_get(path, [params |-> params, fmt |-> NDJSON_LIST,
                            converter |-> "models.Game.convert"]))

arenas_by_team(self, a) ==
    LET path == "/api/team/" \o Format(a.teamId) \o "/arena"
        params == ("max" :> a.maxT)
    IN  Return(R_get(path, [params |-> params, fmt |-> NDJSON_LIST,
                            converter |-> "models.Game.convert"]))

swiss_by_team(self, a) ==
    LET path == "/api/team/" \o Format(a.teamId) \o "/swiss"
        params == ("max" :> a.maxT)
    IN  Return(R_get(path, [params |-> params, fmt |-> NDJSON_LIST,
                            converter |-> "models.Game.convert"]))

schedule_next_round(self, a) ==
    LET path == "/api/swiss/" \o Format(a.tournament_id)
                    \o "/schedule-next-round"
        payload == ("date" :> a.start_timestamp_milliseconds)
    IN  Return(R_post(path, [payload |-> payload]))

stream_results_arena(self, a) ==
    LET path == "/api/tournament/" \o Format(a.tournament_id) \o "/results"
        params == ("nb" :> a.limit)
    IN  YieldFrom(R_get(path, [params |-> params, stream |-> TRUE]))

stream_results_swiss(self, a) ==
    LET path == "/api/swiss/" \o Format(a.tournament_id) \o "/results"
        params == ("nb" :> a.limit)
    IN  YieldFrom(R_get(path, [params |-> params, stream |-> TRUE]))

stream_by_creator(self, a) ==
    LET path == "/api/user/" \o Format(a.username) \o "/tournament/created"
    IN  YieldFrom(R_get(path, [stream |-> TRUE]))

terminate_arena(self, a) ==
    LET path == "/api/tournament/" \o Format(a.tournament_id) \o "/terminate"
    IN  Discard(R_post(path, NoKw))

\* terminate_swiss posting to the arena's path.
terminate_swiss_on_arena(self, a) ==
    LET path == "/api/tournament/" \o Format(a.tournament_id) \o "/terminate"
    IN  Discard(R_post(path, NoKw))

terminate_swiss(self, a) ==
    LET path == "/api/swiss/" \o Format(a.tournament_id) \o "/terminate"
    IN  Discard(R_post(path, NoKw))

update_arena(self, a) ==
    LET path == "/api/tournament/" \o Format(a.tournament_id)
        payload ==
            ("name" :> a.name)
            @@ ("clockTime" :> a.initial_clock_time_minutes)
            @@ ("clockIncrement" :> a.increment_clock_time_seconds)
            @@ ("minutes" :> a.duration_minutes)
            @@ ("waitMinutes" :> a.wait_minutes)
            @@ ("startDate" :> a.start_timestamp_milliseconds)
            @@ ("variant" :> a.variant) @@ ("rated" :> a.rated)
            @@ ("position" :> a.position)
            @@ ("berserkable" :> a.berserkable)
            @@ ("streakable" :> a.streakable) @@ ("hasChat" :> a.has_chat)
            @@ ("description" :> a.description)
            @@ ("password" :> a.password)
            @@ ("conditions.minRating.rating" :> a.min_rating)
            @@ ("conditions.maxRating.rating" :> a.max_rating)
            @@ ("conditions.nbRatedGame.nb" :> a.min_rated_games_count)
            @@ ("conditions.allowList" :> a.allowed_usernames)
    IN  Return(R_post(path, [json |-> payload,
                             converter |-> "models.Tournament.convert"]))

update_swiss(self, a) ==
    LET path == "/api/swiss/" \o Format(a.tournament_id) \o "/edit"
        payload ==
            ("name" :> a.name)
            @@ ("clock.limit" :> a.initial_clock_time_minutes)
            @@ ("clock.increment" :> a.increment_clock_time_seconds)
            @@ ("nbRounds" :> a.max_rounds)
            @@ ("startDate" :> a.start_timestamp_milliseconds)
            @@ ("roundInterval" :> a.round_interval)
            @@ ("variant" :> a.variant)
            @@ ("description" :> a.description) @@ ("rated" :> a.rated)
            @@ ("password" :> a.password)
            @@ ("forbiddenPairings" :> a.forbidden_pairings)
            @@ ("manualPairings" :> a.manual_pairings)
            @@ ("chatFor" :> a.chat_read_write_permissions)
            @@ ("conditions.minRating.rating" :> a.min_rating)
            @@ ("conditions.maxRating.rating" :> a.max_rating)
            @@ ("conditions.nbRatedGame.nb" :> a.min_rated_games_count)
            @@ ("conditions.allowList" :> a.allowed_usernames)
    IN  Return(R_post(path, [json |-> payload,
                             converter |-> "models.Tournament.convert"]))

withdraw_arena(self, a) ==
    LET path == "/api/tournament/" \o Format(a.tournament_id) \o "/withdraw"
    IN  Discard(R_post(path, NoKw))

withdraw_swiss(self, a) ==
    LET path == "/api/swiss/" \o Format(a.tournament_id) \o "/withdraw"
    IN  Discard(R_post(path, NoKw))

\* Attribute lookup on the client: the body of method m.
Body(m, self, a) ==
    CASE m = "get" -> get(self, a)
      [] m = "get_tournament_arena" -> get_tournament_arena(self, a)
      [] m = "get_tournament_swiss" -> get_tournament_swiss(self, a)
      [] m = "join_arena" -> join_arena(self, a)
      [] m = "join_swiss" -> join_swiss(self, a)
      [] m = "get_team_standings" -> get_team_standings(self, a)
      [] m = "update_team_battle" -> update_team_battle(self, a)
      [] m = "create_arena" -> create_arena(self, a)
      [] m = "create_swiss" -> create_swiss(self, a)
      [] m = "export_arena_games" -> export_arena_games(self, a)
      [] m = "export_swiss_games" -> export_swiss_games(self, a)
      [] m = "export_trf" -> export_trf(self, a)
      [] m = "tournaments_by_user" -> tournaments_by_user(self, a)
      [] m = "arenas_by_team" -> arenas_by_team(self, a)
      [] m = "swiss_by_team" -> swiss_by_team(self, a)
      [] m = "schedule_next_round" -> schedule_next_round(self, a)
      [] m = "stream_results_arena" -> stream_results_arena(self, a)
      [] m = "stream_results_swiss" -> stream_results_swiss(self, a)
      [] m = "stream_by_creator" -> stream_by_creator(self, a)
      [] m = "terminate_arena" -> terminate_arena(self, a)
      [] m = "terminate_swiss" -> terminate_swiss(self, a)
      [] m = "update_arena" -> update_arena(self, a)
      [] m = "update_swiss" -> update_swiss(self, a)
      [] m = "withdraw_arena" -> withdraw_arena(self, a)
      [] m = "withdraw_swiss" -> withdraw_swiss(self, a)

\* The methods whose body holds a yield: calling one runs none of it.
GeneratorMethods ==
    {"export_arena_games", "export_swiss_games", "stream_results_arena",
     "stream_results_swiss", "stream_by_creator"}

PlainMethods ==
    {"get", "get_tournament_arena", "get_tournament_swiss", "join_arena",
     "join_swiss", "get_team_standings", "update_team_battle",
     "create_arena", "create_swiss", "export_trf", "tournaments_by_user",
     "arenas_by_team", "swiss_by_team", "schedule_next_round",
     "terminate_arena", "terminate_swiss", "update_arena", "update_swiss",
     "withdraw_arena", "withdraw_swiss"}

Methods == PlainMethods \cup GeneratorMethods

\* The defaults of each method's parameters, as its def line gives them.
Defaults ==
    [m \in Methods |-> [n \in ParamNames(m) |-> Param(m, n).default]]

\* Python's argument binding: a parameter the caller did not pass takes its
\* default.
Bind(m, given) ==
    [n \in DOMAIN Defaults[m] |->
        IF n \in DOMAIN given THEN given[n] ELSE Defaults[m][n]]

(***************************************************************************)
(* The caller's inputs: for each method, every required argument and at    *)
(* most MaxGiven of the optional ones, each drawn from a few values of     *)
(* its type that include the falsy ones.                                   *)
(***************************************************************************)
TypeValues(ty) ==
    CASE ty = "id" -> {PyStr("abc123"), PyStr("T"), PyStr("a b/c?d")}
      [] ty = "str" -> {PyStr(""), PyStr("x")}
      [] ty = "int" -> {PyInt(0), PyInt(300)}
      [] ty = "bool" -> {PyTrue, PyFalse}

RECURSIVE Assignments(_, _)
Assignments(m, names) ==
    IF names = {} THEN {NoKw}
    ELSE LET n == CHOOSE x \in names : TRUE
         IN  {(n :> v) @@ f : v \in TypeValues(Param(m, n).type),
                              f \in Assignments(m, names \ {n})}

GivenSets(m) ==
    {G \in SUBSET OptionalNames(m) : Cardinality(G) <= MaxGiven}

CallsOf(m) ==
    {[method |-> m, given |-> g] :
        g \in UNION {Assignments(m, RequiredNames(m) \cup G) :
                        G \in GivenSets(m)}}

PlainCalls == UNION {CallsOf(m) : m \in PlainMethods}
GeneratorCalls == UNION {CallsOf(m) : m \in GeneratorMethods}

\* The calls of the interleaved runs: one value for each required argument,
\* and of the optional ones only export_arena_games' as_pgn.
Canonical(v) == v \in {PyStr("abc123"), PyInt(300)}
Simple(c) ==
    /\ \A n \in RequiredNames(c.method) : Canonical(c.given[n])
    /\ DOMAIN c.given \subseteq RequiredNames(c.method) \cup {"as_pgn"}
    /\ c.method = "export_swiss_games" => "as_pgn" \notin DOMAIN c.given
SimplePlainCalls == {c \in PlainCalls : Simple(c)}
SimpleGeneratorCalls == {c \in GeneratorCalls : Simple(c)}

(***************************************************************************)
(* The requestor, modelled from the specification: it captures the request *)
(* and either raises or answers.  The answer to a streaming request is an  *)
(* iterator over a response of n items, which either ends after them or    *)
(* breaks with an error while producing item n + 1; it produces an item    *)
(* only when asked for one.                                                *)
(***************************************************************************)
Bodies == {"b1", "b2"}
Errors == {"ResponseError"}

NoAnswer == [kind |-> "none", body |-> "", error |-> ""]
Answered(b) == [kind |-> "value", body |-> b, error |-> ""]
Failed(e) == [kind |-> "error", body |-> "", error |-> e]
Answers == {Answered(b) : b \in Bodies} \cup {Failed(e) : e \in Errors}
SimpleAnswers == {Answered("b1")} \cup {Failed(e) : e \in Errors}

Streams ==
    {[n |-> n, breaks |-> e] : n \in 0..MaxItems, e \in Errors \cup {""}}

Kw(request, k, default) ==
    IF k \in DOMAIN request.kw THEN request.kw[k] ELSE default

\* What the requestor's get hands back: with stream=True an iterator over
\* a response still to be read; otherwise the response read to its end and
\* decoded before get returns, as a list of its records in the order they
\* came under NDJSON_LIST.
AnswerShape(request) ==
    IF Kw(request, "stream", FALSE) = TRUE THEN "iterator"
    ELSE IF Kw(request, "fmt", "") = NDJSON_LIST THEN "list"
    ELSE "value"

\* Item k of the response to a streaming request: a chunk of text when PGN
\* was asked for, else a decoded record.
TransportItem(request, k) ==
    [k |-> k,
     form |-> IF Kw(request, "fmt", "") = PGN THEN "text" ELSE "record",
     converter |-> Kw(request, "converter", "")]

\* next() on the requestor's iterator.
TransportNext(g) ==
    IF g.asked < g.n
    THEN [kind |-> "item", error |-> "",
          item |-> TransportItem(g.requests[Len(g.requests)], g.asked + 1)]
    ELSE IF g.breaks # ""
    THEN [kind |-> "raise", error |-> g.breaks,
          item |-> TransportItem(g.requests[Len(g.requests)], 0)]
    ELSE [kind |-> "stop", error |-> "",
          item |-> TransportItem(g.requests[Len(g.requests)], 0)]

(***************************************************************************)
(* Outcomes: what a call or a pull hands to the caller.                    *)
(***************************************************************************)
NoneValue == [isNone |-> TRUE, body |-> ""]
Value(b) == [isNone |-> FALSE, body |-> b]

NoCall == [kind |-> "no call", value |-> NoneValue, error |-> ""]
Returned(v) == [kind |-> "returned", value |-> v, error |-> ""]
ReturnedGenerator == [kind |-> "generator", value |-> NoneValue, error |-> ""]

\* A body that catches the requestor's exception and raises its own.
RaisedTranslated(e) ==
    [kind |-> "raised", value |-> NoneValue, error |-> "TournamentError"]

\* An exception leaving a body that has no try/except around the requestor
\* call: the exception itself.
Raised(e) == [kind |-> "raised", value |-> NoneValue, error |-> e]

\* The requests one run of a body issues: the one requestor call it makes.
Issue(plan) == <<plan.request>>

\* The end of a plain method: "return self._r...." hands the answer on,
\* a bare "self._r...." statement falls off the end and returns None.
Finish(plan, answer) ==
    IF answer.kind = "error" THEN Raised(answer.error)
    ELSE IF plan.ret = "return" THEN Returned(Value(answer.body))
    ELSE Returned(NoneValue)

\* An export body that keeps an explicit as_pgn as the client's default.
AttributesRememberPgn(self, m, a) ==
    IF m \in {"export_arena_games", "export_swiss_games"}
        /\ a.as_pgn # PyNone
    THEN [self EXCEPT !.pgn_as_default = (a.as_pgn.i = 1)]
    ELSE self

\* The client's attributes after a body ran: no body assigns to self.
Attributes(self, m, a) == self

(***************************************************************************)
(* Generator objects.  Beside the generator's own state (where it stands,  *)
(* the iterator it delegates to) a record keeps what the requestor saw     *)
(* (requests, refused, asked) and what the consumer got (pulled, thrown,   *)
(* out).                                                                   *)
(***************************************************************************)
NoPull == [kind |-> "none", error |-> ""]
Yielded == [kind |-> "item", error |-> ""]
Stopped == [kind |-> "stop", error |-> ""]
Threw(e) == [kind |-> "raise", error |-> e]

\* A streaming method written as a plain function that returns the
\* requestor's iterator: the request goes out when the method is called.
NewGeneratorEager(c) ==
    [method |-> c.method, given |-> c.given, state |-> "created",
     requests |-> Issue(Body(c.method, [pgn_as_default |-> FALSE],
                             Bind(c.method, c.given))),
     refused |-> "", n |-> 0, breaks |-> "",
     asked |-> 0, pulled |-> <<>>, thrown |-> <<>>, out |-> NoPull]

\* Calling a generator method: a generator object, none of the body run.
NewGenerator(c) ==
    [method |-> c.method, given |-> c.given, state |-> "created",
     requests |-> <<>>, refused |-> "", n |-> 0, breaks |-> "",
     asked |-> 0, pulled |-> <<>>, thrown |-> <<>>, out |-> NoPull]

\* "yield from list(<iterator>)": the first pull reads the whole response.
YieldFromListNext(g) ==
    LET h == [g EXCEPT !.asked = g.n + 1]
    IN  IF g.breaks # ""
        THEN [h EXCEPT !.state = "finished", !.thrown = Append(@, g.breaks),
                       !.out = [kind |-> "raise", error |-> g.breaks]]
        ELSE IF Len(g.pulled) < g.n
        THEN [h EXCEPT !.state = "running",
                       !.pulled = Append(@,
                            TransportItem(g.requests[Len(g.requests)],
                                          Len(g.pulled) + 1)),
                       !.out = [kind |-> "item", error |-> ""]]
        ELSE [h EXCEPT !.state = "finished",
                       !.out = [kind |-> "stop", error |-> ""]]

\* "yield from <iterator>": one pull of the generator is one next() on the
\* iterator; its item is yielded as it is, its end ends the generator, and
\* its exception leaves the generator, which is then finished.
YieldFromNext(g) ==
    LET r == TransportNext(g)
        h == [g EXCEPT !.asked = @ + 1]
    IN  CASE r.kind = "item" ->
                [h EXCEPT !.state = "running",
                          !.pulled = Append(@, r.item), !.out = Yielded]
          [] r.kind = "stop" ->
                [h EXCEPT !.state = "finished", !.out = Stopped]
          [] r.kind = "raise" ->
                [h EXCEPT !.state = "finished",
                          !.thrown = Append(@, Raised(r.error).error),
                          !.out = Threw(Raised(r.error).error)]

\* The first pull runs the body up to its first yield: the requestor call,
\* which may raise, and then the first step of the delegation.
FirstPull(g, self, answer) ==
    LET plan == Body(g.method, self, Bind(g.method, g.given))
        h == [g EXCEPT !.requests = @ \o Issue(plan)]
    IN  IF answer.kind = "error"
        THEN [h EXCEPT !.state = "finished", !.refused = answer.error,
                       !.thrown = Append(@, Raised(answer.error).error),
                       !.out = Threw(Raised(answer.error).error)]
        ELSE YieldFromNext([h EXCEPT !.n = answer.stream.n,
                                     !.breaks = answer.stream.breaks])

StreamAnswers ==
    {[kind |-> "error", error |-> e, stream |-> [n |-> 0, breaks |-> ""]] :
        e \in Errors}
    \cup {[kind |-> "iterator", error |-> "", stream |-> s] : s \in Streams}
SimpleStreamAnswers == {x \in StreamAnswers : x.stream.breaks = ""}

(***************************************************************************)
(* The state machine.                                                      *)
(***************************************************************************)
Idle ==
    [method |-> "", given |-> NoKw, requests |-> <<>>, answer |-> NoAnswer,
     outcome |-> NoCall]

Init ==
    /\ client \in {[pgn_as_default |-> b] : b \in BOOLEAN}
    /\ last = Idle
    /\ gens = <<>>

\* A call of a plain method runs its body to the end.
CallPlain(calls, answers, live) ==
    /\ last = Idle
    /\ Len(gens) <= live
    /\ \E c \in calls :
        \E a \in {Bind(c.method, c.given)} :
        \E plan \in {Body(c.method, client, a)} :
        \E answer \in answers :
            /\ last' = [method |-> c.method, given |-> c.given,
                        requests |-> Issue(plan), answer |-> answer,
                        outcome |-> Finish(plan, answer)]
            /\ client' = Attributes(client, c.method, a)
    /\ UNCHANGED gens

\* A call of a generator method returns a generator object.
CallGenerator(calls, live) ==
    /\ last = Idle
    /\ Len(gens) < live
    /\ \E c \in calls :
        /\ last' = [method |-> c.method, given |-> c.given,
                    requests |-> <<>>, answer |-> NoAnswer,
                    outcome |-> ReturnedGenerator]
        /\ gens' = Append(gens, NewGenerator(c))
    /\ UNCHANGED client

\* next() on a generator the caller holds.
Pull(i, answers) ==
    LET g == gens[i]
    IN  /\ \/ /\ g.state = "created"
              /\ \E answer \in answers :
                    gens' = [gens EXCEPT ![i] = FirstPull(g, client, answer)]
              /\ client' = Attributes(client, g.method,
                                      Bind(g.method, g.given))
           \/ /\ g.state = "running"
              /\ gens' = [gens EXCEPT ![i] = YieldFromNext(g)]
              /\ UNCHANGED client
           \/ /\ g.state = "finished"
              /\ gens' = [gens EXCEPT ![i].out = Stopped]
              /\ UNCHANGED client
        /\ UNCHANGED last

\* The caller is done with the outcome of its most recent call.
Forget ==
    /\ last # Idle
    /\ last' = Idle
    /\ UNCHANGED <<client, gens>>

\* The caller lets go of a generator, exhausted or not.
Drop(i) ==
    /\ gens' = [k \in 1..(Len(gens) - 1) |->
                    IF k < i THEN gens[k] ELSE gens[k + 1]]
    /\ UNCHANGED <<client, last>>

\* Every method with every argument choice, one call at a time: the caller
\* lets go of a generator before it calls again.
Next ==
    \/ CallPlain(PlainCalls, Answers, 0)
    \/ CallGenerator(GeneratorCalls, 1)
    \/ \E i \in DOMAIN gens : Pull(i, StreamAnswers)
    \/ \E i \in DOMAIN gens : Drop(i)
    \/ Forget

Spec == Init /\ [][Next]_vars

\* Calls interleaved with the pulls of up to MaxGens generators, whose
\* requests may be refused and whose responses, once begun, do not break.
NextInterleaved ==
    \/ CallPlain(SimplePlainCalls, SimpleAnswers, MaxGens)
    \/ CallGenerator(SimpleGeneratorCalls, MaxGens)
    \/ \E i \in DOMAIN gens : Pull(i, SimpleStreamAnswers)
    \/ \E i \in DOMAIN gens : Drop(i)
    \/ Forget

SpecInterleaved == Init /\ [][NextInterleaved]_vars

(***************************************************************************)
(* Properties.                                                             *)
(***************************************************************************)
Gens == {gens[i] : i \in DOMAIN gens}

\* The calls that have issued their request: the plain call just made, and
\* every generator pulled at least once.
Issued ==
    (IF last.requests # <<>>
     THEN {[method |-> last.method, given |-> last.given,
            requests |-> last.requests]}
     ELSE {})
    \cup {[method |-> g.method, given |-> g.given, requests |-> g.requests] :
            g \in {h \in Gens : h.requests # <<>>}}

Omitted(c) == OptionalNames(c.method) \ DOMAIN c.given

\* The dictionary a request carries: its query parameters, its JSON body or
\* its form body.
Carried(request) ==
    IF "json" \in DOMAIN request.kw THEN request.kw.json
    ELSE IF "params" \in DOMAIN request.kw THEN request.kw.params
    ELSE IF "payload" \in DOMAIN request.kw THEN request.kw.payload
    ELSE NoKw

ExportMethods == {"export_arena_games", "export_swiss_games"}
GameConvert == "models.Game.convert"

\* One export generator's request and elements, for the mode pgn.
ExportInMode(g, pgn) ==
    /\ Len(g.requests) = 1
    /\ LET r == g.requests[1]
       IN  /\ r.verb = "GET"
           /\ "fmt" \in DOMAIN r.kw
           /\ IF pgn
              THEN /\ r.kw.fmt = PGN
                   /\ "converter" \notin DOMAIN r.kw
                   /\ \A k \in DOMAIN g.pulled : g.pulled[k].form = "text"
              ELSE /\ r.kw.fmt = NDJSON
                   /\ "converter" \in DOMAIN r.kw
                   /\ r.kw.converter = GameConvert
                   /\ \A k \in DOMAIN g.pulled :
                        /\ g.pulled[k].form = "record"
                        /\ g.pulled[k].converter = GameConvert
           /\ \A k \in DOMAIN g.pulled : g.pulled[k] = TransportItem(r, k)

\* C1 as stated: an export call with as_pgn=True asks for PGN with no
\* converter and yields text chunks; with as_pgn=False or as_pgn omitted it
\* asks for NDJSON with the game converter and yields decoded records; all
\* elements of one sequence come from one request of one format.
C1_OmittedMeansJson ==
    \A g \in Gens :
        g.method \in ExportMethods /\ g.state # "created"
        => ExportInMode(g, "as_pgn" \in DOMAIN g.given
                           /\ g.given.as_pgn = PyTrue)

\* C1 amended: as above for an explicit as_pgn; with as_pgn omitted the mode
\* is the client-wide default: PGN when the client's default is PGN, NDJSON
\* with the game converter otherwise.
C1_ExportMode ==
    \A g \in Gens :
        g.method \in ExportMethods /\ g.state # "created"
        => ExportInMode(g, IF "as_pgn" \in DOMAIN g.given
                           THEN g.given.as_pgn = PyTrue
                           ELSE client.pgn_as_default)

\* An export with as_pgn omitted, on a client whose default is PGN, has
\* yielded two elements.
C1_Witness ==
    /\ client.pgn_as_default
    /\ \E g \in Gens :
        /\ g.method = "export_arena_games"
        /\ "as_pgn" \notin DOMAIN g.given
        /\ Len(g.pulled) = 2
        /\ g.pulled[2].form = "text"

(***************************************************************************)
(* The wire key of each optional argument that travels in the request's    *)
(* dictionary.                                                             *)
(***************************************************************************)
Same(names) == [n \in names |-> n]

WireKeys(m) ==
    CASE m = "create_arena" ->
            Same({"name", "startDate", "variant", "rated", "position",
                  "berserkable", "streakable", "hasChat", "description",
                  "password", "teamBattleByTeam"})
            @@ ("wait_minutes" :> "waitMinutes")
            @@ ("teamId" :> "conditions.teamMember.teamId")
            @@ ("minRating" :> "conditions.minRating.rating")
            @@ ("maxRating" :> "conditions.maxRating.rating")
            @@ ("nbRatedGame" :> "conditions.nbRatedGame.nb")
      [] m = "create_swiss" ->
            Same({"name", "startsAt", "roundInterval", "variant",
                  "description", "rated", "chatFor"})
      [] m = "update_arena" ->
            Same({"name", "variant", "rated", "position", "berserkable",
                  "streakable", "description", "password"})
            @@ ("wait_minutes" :> "waitMinutes")
            @@ ("start_timestamp_milliseconds" :> "startDate")
            @@ ("has_chat" :> "hasChat")
            @@ ("min_rating" :> "conditions.minRating.rating")
            @@ ("max_rating" :> "conditions.maxRating.rating")
            @@ ("min_rated_games_count" :> "conditions.nbRatedGame.nb")
            @@ ("allowed_usernames" :> "conditions.allowList")
      [] m = "update_swiss" ->
            Same({"name", "variant", "description", "rated", "password"})
            @@ ("start_timestamp_milliseconds" :> "startDate")
            @@ ("round_interval" :> "roundInterval")
            @@ ("forbidden_pairings" :> "forbiddenPairings")
            @@ ("manual_pairings" :> "manualPairings")
            @@ ("chat_read_write_permissions" :> "chatFor")
            @@ ("min_rating" :> "conditions.minRating.rating")
            @@ ("max_rating" :> "conditions.maxRating.rating")
            @@ ("min_rated_games_count" :> "conditions.nbRatedGame.nb")
            @@ ("allowed_usernames" :> "conditions.allowList")
      [] m = "update_team_battle" ->
            ("team_ids" :> "teams")
            @@ ("team_leader_count_per_team" :> "nbLeaders")
      [] m = "join_arena" ->
            Same({"password", "team"})
            @@ ("should_pair_immediately" :> "pairMeAsap")
      [] m = "join_swiss" -> Same({"password"})
      [] m = "tournaments_by_user" -> Same({"nb"})
      [] m \in {"arenas_by_team", "swiss_by_team"} -> ("maxT" :> "max")
      [] m \in {"stream_results_arena", "stream_results_swiss"} ->
            ("limit" :> "nb")
      [] m = "export_arena_games" ->
            Same({"moves", "tags", "clocks", "evals", "opening"})
      [] m = "export_swiss_games" ->
            Same({"moves", "pgnInJson", "tags", "clocks", "evals",
                  "opening"})
      [] OTHER -> NoKw

CreateUpdateMethods ==
    {"create_arena", "create_swiss", "update_arena", "update_swiss",
     "update_team_battle"}

ExplicitFalsy(v) == v \in {PyFalse, PyInt(0), PyStr("")}

AbsentOrNull(d, k) == k \notin DOMAIN d \/ d[k] = PyNone

\* The first half of C2 alone: no omitted argument's key carries False, 0
\* or the empty string.
NoOmittedKeyFalsy ==
    \A c \in Issued :
        c.method \in CreateUpdateMethods
        => \A n \in Omitted(c) \cap DOMAIN WireKeys(c.method) :
            LET d == Carried(c.requests[1])
                k == WireKeys(c.method)[n]
            IN  k \in DOMAIN d => ~ExplicitFalsy(d[k])

\* C2: in the payload of create_arena, create_swiss, update_arena,
\* update_swiss and update_team_battle no wire key of an omitted optional
\* argument carries False, 0 or the empty string: each such key is absent
\* or null.
C2_OmittedAbsentOrNull ==
    \A c \in Issued :
        c.method \in CreateUpdateMethods
        => \A n \in Omitted(c) \cap DOMAIN WireKeys(c.method) :
            LET d == Carried(c.requests[1])
                k == WireKeys(c.method)[n]
            IN  /\ k \in DOMAIN d => ~ExplicitFalsy(d[k])
                /\ AbsentOrNull(d, k)

\* C3: in the request of any method, every optional field the caller left
\* unset is omitted or null; the client puts no value of its own in its
\* place.
C3_NoValueOfItsOwn ==
    \A c \in Issued :
        \A n \in Omitted(c) \cap DOMAIN WireKeys(c.method) :
            AbsentOrNull(Carried(c.requests[1]), WireKeys(c.method)[n])

\* C4: create_swiss(teamId=T, clockLimit=L, clockIncrement=I, nbRounds=R)
\* issues exactly one POST to /api/swiss/new/T whose JSON body maps
\* clock.limit to L, clock.increment to I and nbRounds to R and holds no
\* flat clockTime, clockLimit or clockIncrement key; update_swiss sends its
\* clock values under clock.limit and clock.increment too.
C4_SwissClockKeys ==
    /\ last.method = "create_swiss"
       => /\ Len(last.requests) = 1
          /\ LET r == last.requests[1]
             IN  /\ r.verb = "POST"
                 /\ r.path = "/api/swiss/new/" \o last.given.teamId.s
                 /\ "json" \in DOMAIN r.kw
                 /\ {"clock.limit", "clock.increment", "nbRounds"}
                        \subseteq DOMAIN r.kw.json
                 /\ r.kw.json["clock.limit"] = last.given.clockLimit
                 /\ r.kw.json["clock.increment"] = last.given.clockIncrement
                 /\ r.kw.json["nbRounds"] = last.given.nbRounds
                 /\ DOMAIN r.kw.json
                        \cap {"clockTime", "clockLimit", "clockIncrement"}
                        = {}
    /\ last.method = "update_swiss"
       => /\ Len(last.requests) = 1
          /\ LET r == last.requests[1]
             IN  /\ "json" \in DOMAIN r.kw
                 /\ {"clock.limit", "clock.increment"}
                        \subseteq DOMAIN r.kw.json
                 /\ r.kw.json["clock.limit"]
                        = last.given.initial_clock_time_minutes
                 /\ r.kw.json["clock.increment"]
                        = last.given.increment_clock_time_seconds
                 /\ DOMAIN r.kw.json
                        \cap {"clockTime", "clockLimit", "clockIncrement"}
                        = {}

\* create_swiss for team T with a limit of 300, an increment of 0 and 300
\* rounds has been answered.
C4_Witness ==
    /\ last.method = "create_swiss"
    /\ last.given.teamId = PyStr("T")
    /\ last.given.clockLimit = PyInt(300)
    /\ last.given.clockIncrement = PyInt(0)
    /\ last.outcome.kind = "returned"

\* C5: for every streaming method and a response of N items, once the
\* consumer has pulled K < N elements the requestor's iterator has been
\* asked for exactly K items, and the K elements are its first K items in
\* its order.
C5_NoReadAhead ==
    \A g \in Gens :
        /\ Len(g.pulled) < g.n => g.asked = Len(g.pulled)
        /\ \A k \in DOMAIN g.pulled :
            g.pulled[k] = TransportItem(g.requests[1], k)

\* One element pulled of a response with more: K = 1 < N.
C5_Witness ==
    \E g \in Gens :
        /\ g.method = "stream_results_swiss"
        /\ g.n > 1
        /\ Len(g.pulled) = 1
        /\ g.asked = 1

(***************************************************************************)
(* The HTTP surface: each method's verb and path template.                 *)
(***************************************************************************)
Endpoint(verb, before, id, after) ==
    [verb |-> verb, before |-> before, id |-> id, after |-> after]

Surface(m) ==
    CASE m = "get" -> Endpoint("GET", "/api/tournament", "", "")
      [] m = "get_tournament_arena" ->
            Endpoint("GET", "/api/tournament/", "tournament_id", "?page=")
      [] m = "get_tournament_swiss" ->
            Endpoint("GET", "/api/swiss/", "tournament_id", "")
      [] m = "join_arena" ->
            Endpoint("POST", "/api/tournament/", "tournament_id", "/join")
      [] m = "join_swiss" ->
            Endpoint("POST", "/api/swiss/", "tournament_id", "/join")
      [] m = "get_team_standings" ->
            Endpoint("GET", "/api/tournament/", "tournament_id", "/teams")
      [] m = "update_team_battle" ->
            Endpoint("POST", "/api/tournament/team-battle/",
                     "tournament_id", "")
      [] m = "create_arena" -> Endpoint("POST", "/api/tournament", "", "")
      [] m = "create_swiss" ->
            Endpoint("POST", "/api/swiss/new/", "teamId", "")
      [] m = "export_arena_games" ->
            Endpoint("GET", "/api/tournament/", "id", "/games")
      [] m = "export_swiss_games" ->
            Endpoint("GET", "/api/swiss/", "id", "/games")
      [] m = "export_trf" ->
            Endpoint("GET", "/swiss/", "tournament_id", "/.trf")
      [] m \in {"tournaments_by_user", "stream_by_creator"} ->
            Endpoint("GET", "/api/user/", "username", "/tournament/created")
      [] m = "arenas_by_team" ->
            Endpoint("GET", "/api/team/", "teamId", "/arena")
      [] m = "swiss_by_team" ->
            Endpoint("GET", "/api/team/", "teamId", "/swiss")
      [] m = "schedule_next_round" ->
            Endpoint("POST", "/api/swiss/", "tournament_id",
                     "/schedule-next-round")
      [] m = "stream_results_arena" ->
            Endpoint("GET", "/api/tournament/", "tournament_id", "/results")
      [] m = "stream_results_swiss" ->
            Endpoint("GET", "/api/swiss/", "tournament_id", "/results")
      [] m = "terminate_arena" ->
            Endpoint("POST", "/api/tournament/", "tournament_id",
                     "/terminate")
      [] m = "terminate_swiss" ->
            Endpoint("POST", "/api/swiss/", "tournament_id", "/terminate")
      [] m = "update_arena" ->
            Endpoint("POST", "/api/tournament/", "tournament_id", "")
      [] m = "update_swiss" ->
            Endpoint("POST", "/api/swiss/", "tournament_id", "/edit")
      [] m = "withdraw_arena" ->
            Endpoint("POST", "/api/tournament/", "tournament_id",
                     "/withdraw")
      [] m = "withdraw_swiss" ->
            Endpoint("POST", "/api/swiss/", "tournament_id", "/withdraw")

\* The page number as the caller gave it, or the documented first page.
PageOf(given) ==
    IF "page" \in DOMAIN given THEN ToString(given.page.i) ELSE "1"

\* The request is on the method's endpoint, the identifier verbatim in it.
OnEndpoint(m, given, r) ==
    LET e == Surface(m)
    IN  /\ r.verb = e.verb
        /\ r.path = e.before
                    \o (IF e.id = "" THEN "" ELSE given[e.id].s)
                    \o e.after
                    \o (IF m = "get_tournament_arena" THEN PageOf(given)
                        ELSE "")

\* C6 as stated: every method issues exactly one request per call, with the
\* verb and path of its endpoint and the identifier verbatim in the path.
C6_OneRequestPerCall ==
    last.method # ""
    => /\ Len(last.requests) = 1
       /\ OnEndpoint(last.method, last.given, last.requests[1])

\* C6 amended: a plain method issues exactly one request during the call;
\* a streaming method issues none when it is called and exactly one at the
\* first pull of the sequence it returned, so never more than one per call;
\* every request has the verb and path of its endpoint, the identifier
\* verbatim in the path.
C6_OneRequestOnEndpoint ==
    /\ last.method \in PlainMethods
       => /\ Len(last.requests) = 1
          /\ OnEndpoint(last.method, last.given, last.requests[1])
    /\ last.method \in GeneratorMethods => last.requests = <<>>
    /\ \A g \in Gens :
        IF g.state = "created" THEN g.requests = <<>>
        ELSE /\ Len(g.requests) = 1
             /\ OnEndpoint(g.method, g.given, g.requests[1])

\* A streaming call with identifier T whose sequence was pulled to its end:
\* one element, then the end.
C6_Witness ==
    \E g \in Gens :
        /\ g.method = "export_swiss_games"
        /\ g.given.id = PyStr("T")
        /\ g.state = "finished"
        /\ Len(g.pulled) = 1
        /\ Len(g.requests) = 1

\* C7: get_team_standings(X) issues exactly one request, a GET to
\* /api/tournament/X/teams with no query parameters and no converter, and
\* returns exactly the value the requestor returned.
C7_TeamStandings ==
    last.method = "get_team_standings"
    => /\ last.requests
            = <<[verb |-> "GET",
                 path |-> "/api/tournament/"
                            \o last.given.tournament_id.s \o "/teams",
                 kw |-> NoKw]>>
       /\ last.answer.kind = "value"
            => last.outcome = Returned(Value(last.answer.body))

\* get_team_standings("abc123") has returned the answer b2.
C7_Witness ==
    /\ last.method = "get_team_standings"
    /\ last.given.tournament_id = PyStr("abc123")
    /\ last.answer = Answered("b2")
    /\ last.outcome.kind = "returned"

InclusionFlags == {"moves", "tags", "clocks", "evals", "opening"}

\* C8: the request of export_arena_games and of export_swiss_games carries
\* each inclusion flag (moves, tags, clocks, evals, opening) under the query
\* key of the same name, with the value the caller gave or the method's
\* default.
C8_FlagsUnderOwnName ==
    \A g \in Gens :
        g.method \in ExportMethods /\ g.requests # <<>>
        => /\ "params" \in DOMAIN g.requests[1].kw
           /\ \A f \in InclusionFlags :
                /\ f \in DOMAIN g.requests[1].kw.params
                /\ g.requests[1].kw.params[f]
                    = IF f \in DOMAIN g.given THEN g.given[f]
                      ELSE Defaults[g.method][f]

\* C9: a failure the requestor raises reaches the caller as it is, with no
\* second request: from the call itself for a plain method; for a streaming
\* method, when the response breaks while producing item j, the consumer
\* has items 1..j-1, gets that failure at pull j, and nothing after it.
C9_FailureAsIs ==
    /\ last.answer.kind = "error"
       => /\ last.outcome.kind = "raised"
          /\ last.outcome.error = last.answer.error
          /\ Len(last.requests) = 1
    /\ \A g \in Gens :
        /\ Len(g.requests) <= 1
        /\ g.refused # ""
           => g.thrown = <<g.refused>> /\ g.pulled = <<>> /\ g.asked = 0
        /\ g.refused = "" /\ g.state = "finished" /\ g.breaks # ""
           => /\ g.thrown = <<g.breaks>>
              /\ g.pulled = [k \in 1..g.n |-> TransportItem(g.requests[1], k)]
              /\ g.asked = g.n + 1
        /\ g.refused = "" /\ (g.state # "finished" \/ g.breaks = "")
           => g.thrown = <<>>

\* A response that broke while producing its third item: two items, then
\* the failure, then a further pull that found the sequence ended.
C9_Witness ==
    \E g \in Gens :
        /\ g.n = 2
        /\ g.breaks # ""
        /\ g.thrown = <<g.breaks>>
        /\ Len(g.pulled) = 2
        /\ g.out = Stopped

ListMethods == {"tournaments_by_user", "arenas_by_team", "swiss_by_team"}
LimitName(m) == IF m = "tournaments_by_user" THEN "nb" ELSE "maxT"
LimitKey(m) == IF m = "tournaments_by_user" THEN "nb" ELSE "max"

\* The limit the call passes on: the one given, else the default, None.
LimitOf(m, given) ==
    IF LimitName(m) \in DOMAIN given THEN given[LimitName(m)] ELSE PyNone

\* C11: a call of tournaments_by_user, arenas_by_team or swiss_by_team has,
\* when it returns, issued its one GET: not streamed, in the NDJSON list
\* format, the limit under the query key nb (max for the two team
\* methods); what it returns is the list the requestor read and decoded,
\* as it is; the call makes no generator, and nothing after the call adds
\* to its requests.
C11_ListsEager ==
    /\ [](last.method \in ListMethods
            => /\ Len(last.requests) = 1
               /\ last.requests[1].verb = "GET"
               /\ AnswerShape(last.requests[1]) = "list"
               /\ last.requests[1].kw.params
                    = (LimitKey(last.method)
                        :> LimitOf(last.method, last.given))
               /\ last.outcome.kind # "generator"
               /\ last.answer.kind = "value"
                    => last.outcome = Returned(Value(last.answer.body)))
    /\ [][/\ last'.method \in ListMethods /\ last.method # last'.method
                => gens' = gens
          /\ last.method \in ListMethods /\ last'.method = last.method
                => last'.requests = last.requests]_vars

\* arenas_by_team("T", maxT=300) has returned the list b2.
C11_Witness ==
    /\ last.method = "arenas_by_team"
    /\ last.given = ("teamId" :> PyStr("T") @@ "maxT" :> PyInt(300))
    /\ last.requests[1].kw.params = ("max" :> PyInt(300))
    /\ last.outcome = Returned(Value("b2"))

ReturnNothingMethods ==
    {"join_arena", "schedule_next_round", "terminate_arena",
     "terminate_swiss", "withdraw_arena", "withdraw_swiss"}

\* C12: a call of join_arena, schedule_next_round, terminate_arena,
\* terminate_swiss, withdraw_arena or withdraw_swiss issues exactly one
\* POST and, whatever the requestor answered, returns None.
C12_ActionsReturnNone ==
    last.method \in ReturnNothingMethods
    => /\ Len(last.requests) = 1
       /\ last.requests[1].verb = "POST"
       /\ last.answer.kind = "value"
            => last.outcome = Returned(NoneValue)

\* C13: a call of a streaming method returns its sequence with no request
\* issued, and cannot fail for the requestor's sake; a sequence not yet
\* pulled has caused no request; once pulled it has issued exactly one, a
\* streamed GET, and a refusal of that request is what the first pull
\* raised; a fresh call leaves every earlier sequence as it was and starts
\* with no request of its own; and no pull after the first, on an
\* exhausted sequence included, adds a request.
C13_LazyRequest ==
    /\ [](/\ last.method \in GeneratorMethods
                => last.requests = <<>> /\ last.outcome = ReturnedGenerator
          /\ \A g \in Gens :
                /\ g.state = "created"
                    => g.requests = <<>> /\ g.asked = 0 /\ g.thrown = <<>>
                /\ g.state # "created"
                    => /\ Len(g.requests) = 1
                       /\ g.requests[1].verb = "GET"
                       /\ AnswerShape(g.requests[1]) = "iterator"
                /\ g.refused # ""
                    => /\ g.thrown = <<g.refused>>
                       /\ g.pulled = <<>>
                       /\ g.state = "finished")
    /\ [][/\ Len(gens') = Len(gens) + 1
                => /\ gens'[Len(gens')].requests = <<>>
                   /\ \A i \in DOMAIN gens : gens'[i] = gens[i]
          /\ Len(gens') = Len(gens)
                => \A i \in DOMAIN gens :
                        gens[i].state # "created"
                        => gens'[i].requests = gens[i].requests]_vars

\* stream_by_creator was called and returned its sequence with no request;
\* the first pull issued the request, which was refused; a further pull
\* found the sequence ended, with still the one request.
C13_Witness ==
    /\ last.method = "stream_by_creator"
    /\ last.requests = <<>>
    /\ \E g \in Gens :
        /\ g.method = "stream_by_creator"
        /\ Len(g.requests) = 1
        /\ g.refused # ""
        /\ g.thrown = <<g.refused>>
        /\ g.out = Stopped
====
